---------------------------- MODULE Spec2Model ----------------------------
(***************************************************************************)
(* Model of ExpressScore/main/express_score.py: the scoring primitives of  *)
(* Scorer, the assignment step MaScorer.match, the per-pair score          *)
(* MaScorer.score_one with MaScorer.location_score, MaScorer.score, and    *)
(* the count scorer's CaseCountScorer.match and CaseCountScorer.score.     *)
(*                                                                         *)
(* Numbers.  Python floats are modelled as exact rationals <<n, d>> in     *)
(* lowest terms with d > 0; NaN (numpy's mean of nothing) is <<0, 0>>.     *)
(* Sequences are 1-based here and 0-based in the source.                   *)
(* An operation's outcome is a record whose field exc is "None" when the   *)
(* call returned and the name of the Python exception when it raised.      *)
(***************************************************************************)
EXTENDS Integers, Sequences, FiniteSets, TLC

VARIABLES pc, input_matrix, allow_zero_scores, match_out,
          warn_, event_, weights, one_out,
          scorer, warn_data, gsr_data, score_out,
          loc_args, loc_out

vars == <<pc, input_matrix, allow_zero_scores, match_out,
          warn_, event_, weights, one_out,
          scorer, warn_data, gsr_data, score_out,
          loc_args, loc_out>>

\* Value of a variable the running specification does not use.
Unused == "unused"

-----------------------------------------------------------------------------
(* Bounds of the model *)

\* Largest number of rows or columns of a score matrix.
MaxDim == 3
\* Largest number of cells (rows * columns) of a score matrix.
MaxCells == 6

-----------------------------------------------------------------------------
(* Rational arithmetic standing for Python float arithmetic *)

Abs(x) == IF x < 0 THEN -x ELSE x

RECURSIVE GCD(_, _)
GCD(a, b) == IF b = 0 THEN a ELSE GCD(b, a % b)

\* The rational n/d (d # 0) in lowest terms with a positive denominator.
Frac(n, d) ==
    LET g == GCD(Abs(n), Abs(d))
        s == IF d < 0 THEN -1 ELSE 1
    IN  <<(s * n) \div g, (s * d) \div g>>

R(n) == <<n, 1>>
Zero == <<0, 1>>
One == <<1, 1>>
NaN == <<0, 0>>
IsNaN(x) == x[2] = 0

RAdd(x, y) == Frac(x[1] * y[2] + y[1] * x[2], x[2] * y[2])
RSub(x, y) == Frac(x[1] * y[2] - y[1] * x[2], x[2] * y[2])
RMul(x, y) == Frac(x[1] * y[1], x[2] * y[2])
\* x / y for y # 0; a zero divisor raises ZeroDivisionError in the callers.
RDiv(x, y) == Frac(x[1] * y[2], x[2] * y[1])
RLt(x, y) == x[1] * y[2] < y[1] * x[2]
RLe(x, y) == x[1] * y[2] <= y[1] * x[2]
RMin(x, y) == IF RLt(y, x) THEN y ELSE x
RMax(x, y) == IF RLt(x, y) THEN y ELSE x

RECURSIVE RSum(_)
RSum(s) == IF s = <<>> THEN Zero ELSE RAdd(Head(s), RSum(Tail(s)))

\* numpy.mean: the mean of an empty array is nan.
Mean(s) == IF s = <<>> THEN NaN ELSE RDiv(RSum(s), R(Len(s)))

\* The subsequence of s whose elements satisfy Keep, in order (boolean mask).
RECURSIVE Mask(_, _)
Mask(s, keep) ==
    IF s = <<>> THEN <<>>
    ELSE (IF keep[1] THEN <<Head(s)>> ELSE <<>>)
         \o Mask(Tail(s), [i \in 1..(Len(keep) - 1) |-> keep[i + 1]])

-----------------------------------------------------------------------------
(* Scorer: the scoring primitives *)

\* slope_score raises ValueError for min_value >= max_value.
slope_score_raises(min_value, max_value) ==
    min_value = max_value \/ RLt(max_value, min_value)

slope_score(result, min_value, max_value) ==
    LET slope == RSub(max_value, min_value)
        r1 == RMin(result, max_value)
        r2 == RMax(r1, min_value)
    IN  RSub(One, RDiv(RSub(r2, min_value), slope))

\* gsr_value is a set of acceptable values (a single value is wrapped).
facet_score(warn_value, gsr_value, wildcards) ==
    IF (wildcards \cap gsr_value) # {} THEN 1
    ELSE IF warn_value \in gsr_value THEN 1 ELSE 0

f1_raises(precision, recall) ==
    \/ RLt(precision, Zero) \/ RLt(One, precision)
    \/ RLt(recall, Zero) \/ RLt(One, recall)

f1(precision, recall) ==
    IF precision = Zero /\ recall = Zero THEN Zero
    ELSE RDiv(RMul(R(2), RMul(precision, recall)), RAdd(precision, recall))

\* Dates are day ordinals (the value of parse(...).date()).
date_diff(warn_date, gsr_date) == gsr_date - warn_date

date_score(dd, max_diff) == slope_score(R(Abs(dd)), Zero, max_diff)

-----------------------------------------------------------------------------
(* MaScorer.match: the assignment step *)

\* Identifiers of the rows (warnings) and columns (events) of a score matrix.
WarnId(i) == <<"w", i>>
EventId(j) == <<"e", j>>

\* A score matrix is the DataFrame handed to match: index, columns, values.
DataFrame(r, c, vals) ==
    [index |-> [i \in 1..r |-> WarnId(i)],
     columns |-> [j \in 1..c |-> EventId(j)],
     values |-> vals]

row_count(m) == Len(m.index)
col_count(m) == Len(m.columns)

\* All entries of the matrix, as a set.
Entries(m) == {m.values[i][j] : i \in 1..row_count(m), j \in 1..col_count(m)}

\* np.max(score_matrix) <= 0
max_not_positive(m) == \A v \in Entries(m) : RLe(v, Zero)

\* np.maximum(score_matrix, zero_matrix)
clamped(m) ==
    [i \in 1..row_count(m) |-> [j \in 1..col_count(m) |-> RMax(m.values[i][j], Zero)]]

k_max(m) == IF row_count(m) > col_count(m) THEN row_count(m) ELSE col_count(m)

\* The clamped matrix zero-padded to a square of side k_max.
score_matrix_square(m) ==
    [i \in 1..k_max(m) |->
        [j \in 1..k_max(m) |->
            IF i <= row_count(m) /\ j <= col_count(m) THEN clamped(m)[i][j] ELSE Zero]]

Perms(k) == {p \in [1..k -> 1..k] : \A i, j \in 1..k : p[i] = p[j] => i = j}

AssignTotal(sq, p) == RSum([i \in 1..Len(sq) |-> sq[i][p[i]]])

\* A solver that pairs row i with column i whatever the costs.
identity_assignment(sq) == {[i \in 1..Len(sq) |-> i]}

\* dlib.max_cost_assignment: some assignment of maximal total cost; which one,
\* among several of the same total, is the library's choice.
max_cost_assignment(sq) ==
    {p \in Perms(Len(sq)) :
        \A q \in Perms(Len(sq)) : RLe(AssignTotal(sq, q), AssignTotal(sq, p))}

\* out_dict as initialised at the top of match.
match_default ==
    [Matches |-> <<>>, Details |-> <<>>, Quality_Score |-> Zero,
     Precision |-> Zero, Recall |-> Zero, F1 |-> Zero]

\* The degenerate test with np.max(score_matrix) < 0 in place of <= 0.
match_degenerate_strict(m) ==
    \/ row_count(m) = 0 \/ col_count(m) = 0
    \/ \A v \in Entries(m) : RLt(v, Zero)

\* The degenerate branches: an empty dimension, or no entry above 0.
match_degenerate(m) ==
    \/ row_count(m) = 0 \/ col_count(m) = 0
    \/ max_not_positive(m)

\* The non-degenerate branch of match for the solver's answer p.
match_assigned(m, allow_zero, p) ==
    LET sq == score_matrix_square(m)
        k == k_max(m)
        assign0 == [i \in 1..k |-> <<i, p[i]>>]
        assign_scores == [i \in 1..k |-> sq[i][p[i]]]
        positive == [i \in 1..k |-> RLt(Zero, assign_scores[i])]
        assign == IF allow_zero THEN assign0 ELSE Mask(assign0, positive)
        out_of_range == \E n \in 1..Len(assign) :
                            \/ assign[n][1] > row_count(m)
                            \/ assign[n][2] > col_count(m)
        scores_ == Mask(assign_scores, positive)
        prec == Frac(Len(assign), row_count(m))
        rec == Frac(Len(assign), col_count(m))
    IN  IF out_of_range
        THEN [exc |-> "IndexError", assign |-> p]
        ELSE IF f1_raises(prec, rec)
        THEN [exc |-> "ValueError", assign |-> p]
        ELSE [exc |-> "None", assign |-> p,
              ret |-> [Matches |-> [n \in 1..Len(assign) |->
                                      <<m.index[assign[n][1]], m.columns[assign[n][2]]>>],
                       Details |-> scores_,
                       Quality_Score |-> Mean(scores_),
                       Precision |-> prec,
                       Recall |-> rec,
                       F1 |-> f1(prec, rec)]]

\* Every outcome MaScorer.match(m, allow_zero) can have.  assign is the solver's
\* raw answer, <<>> when the solver was not called.
MaScorer_match(m, allow_zero) ==
    IF match_degenerate(m)
    THEN {[exc |-> "None", assign |-> <<>>, ret |-> match_default]}
    ELSE {match_assigned(m, allow_zero, p) : p \in max_cost_assignment(score_matrix_square(m))}

-----------------------------------------------------------------------------
(* Inputs of the assignment step *)

ScoreValues == {Frac(-1, 2), Zero, Frac(1, 10), Frac(9, 10)}

Shapes == {s \in (0..MaxDim) \X (0..MaxDim) : s[1] * s[2] <= MaxCells}

Matrices ==
    UNION {{DataFrame(s[1], s[2], v) : v \in [1..s[1] -> [1..s[2] -> ScoreValues]]} :
              s \in Shapes}

InitMatch ==
    /\ pc = "call"
    /\ loc_args = Unused /\ loc_out = Unused
    /\ input_matrix \in Matrices
    /\ allow_zero_scores \in BOOLEAN
    /\ match_out = Unused
    /\ warn_ = Unused /\ event_ = Unused /\ weights = Unused /\ one_out = Unused
    /\ scorer = Unused /\ warn_data = Unused /\ gsr_data = Unused /\ score_out = Unused

\* One call of MaScorer.match(input_matrix, allow_zero_scores).
Match ==
    /\ pc = "call"
    /\ \E o \in MaScorer_match(input_matrix, allow_zero_scores) : match_out' = o
    /\ pc' = "done"
    /\ UNCHANGED <<input_matrix, allow_zero_scores, warn_, event_, weights, one_out,
                   scorer, warn_data, gsr_data, score_out,
                   loc_args, loc_out>>

NextMatch == Match

SpecMatch == InitMatch /\ [][NextMatch]_vars

-----------------------------------------------------------------------------
(* Properties of the assignment step *)

SomeEntryPositive(m) == \E v \in Entries(m) : RLt(Zero, v)

RowOf(m, id) == CHOOSE i \in 1..row_count(m) : m.index[i] = id
ColOf(m, id) == CHOOSE j \in 1..col_count(m) : m.columns[j] = id

IsRowId(m, id) == \E i \in 1..row_count(m) : m.index[i] = id
IsColId(m, id) == \E j \in 1..col_count(m) : m.columns[j] = id

\* The score the caller supplied for a reported pair, and that score with
\* entries below 0 counted as 0.
OriginalScore(m, pair) == m.values[RowOf(m, pair[1])][ColOf(m, pair[2])]
CountedScore(m, pair) == RMax(OriginalScore(m, pair), Zero)

Cells(m) == (1..row_count(m)) \X (1..col_count(m))

\* Sets of cells that use each row and each column at most once.
Matchings(m) ==
    {M \in SUBSET Cells(m) :
        \A a, b \in M : a # b => (a[1] # b[1] /\ a[2] # b[2])}

RECURSIVE CellTotal(_, _)
CellTotal(m, M) ==
    IF M = {} THEN Zero
    ELSE LET c == CHOOSE x \in M : TRUE
         IN  RAdd(RMax(m.values[c[1]][c[2]], Zero), CellTotal(m, M \ {c}))

IsBestTotal(m, t) ==
    /\ \E M \in Matchings(m) : CellTotal(m, M) = t
    /\ \A M \in Matchings(m) : RLe(CellTotal(m, M), t)

MatchesTotal(m, matches) ==
    RSum([n \in 1..Len(matches) |-> CountedScore(m, matches[n])])

ExampleMatrix ==
    DataFrame(2, 2, <<<<Frac(9, 10), Frac(1, 10)>>, <<Frac(1, 10), Frac(9, 10)>>>>)

Diagonal == <<<<WarnId(1), EventId(1)>>, <<WarnId(2), EventId(2)>>>>

\* C1: with allow_zero_scores = False and some entry above 0, the pairs in
\* Matches have the largest total score any set of cells using each row and
\* each column at most once can have (entries below 0 counted as 0); for
\* [[0.9,0.1],[0.1,0.9]] the result is the diagonal pairing.
C1_MatchMaximizesTotal ==
    (pc = "done" /\ ~allow_zero_scores /\ SomeEntryPositive(input_matrix)) =>
        /\ match_out.exc = "None"
        /\ \A n \in 1..Len(match_out.ret.Matches) :
              /\ IsRowId(input_matrix, match_out.ret.Matches[n][1])
              /\ IsColId(input_matrix, match_out.ret.Matches[n][2])
        /\ IsBestTotal(input_matrix, MatchesTotal(input_matrix, match_out.ret.Matches))
        /\ (input_matrix = ExampleMatrix => match_out.ret.Matches = Diagonal)

\* C1 witness: the 2x2 example has been resolved to the diagonal pairing.
C1_Witness ==
    /\ pc = "done" /\ ~allow_zero_scores
    /\ input_matrix = ExampleMatrix
    /\ match_out.exc = "None"
    /\ match_out.ret.Matches = Diagonal

\* C2 (as stated): for either value of allow_zero_scores and any shape, match
\* completes; every reported pair is (row identifier, column identifier), no
\* identifier occurs twice, and no pair that exists only by the padding is
\* reported.
C2_MatchPairsAreOriginal ==
    (pc = "done" /\ SomeEntryPositive(input_matrix)) =>
        /\ match_out.exc = "None"
        /\ \A n \in 1..Len(match_out.ret.Matches) :
              /\ IsRowId(input_matrix, match_out.ret.Matches[n][1])
              /\ IsColId(input_matrix, match_out.ret.Matches[n][2])
        /\ \A n1, n2 \in 1..Len(match_out.ret.Matches) :
              n1 # n2 => /\ match_out.ret.Matches[n1][1] # match_out.ret.Matches[n2][1]
                         /\ match_out.ret.Matches[n1][2] # match_out.ret.Matches[n2][2]

\* C3 (as stated): the aggregates are computed from exactly the reported
\* pairs: Quality Score is the mean of their original scores, Precision is
\* |Matches| / R, Recall is |Matches| / C, F1 their harmonic mean; without
\* allow_zero_scores every reported pair has an original score above 0.
C3_AggregatesFromMatches ==
    (pc = "done" /\ SomeEntryPositive(input_matrix)) =>
        /\ match_out.exc = "None"
        /\ LET matches == match_out.ret.Matches
               P == Frac(Len(matches), row_count(input_matrix))
               Q == Frac(Len(matches), col_count(input_matrix))
           IN  /\ match_out.ret.Quality_Score =
                     Mean([n \in 1..Len(matches) |-> OriginalScore(input_matrix, matches[n])])
               /\ match_out.ret.Precision = P
               /\ match_out.ret.Recall = Q
               /\ match_out.ret.F1 = RDiv(RMul(R(2), RMul(P, Q)), RAdd(P, Q))
               /\ (~allow_zero_scores =>
                      \A n \in 1..Len(matches) :
                          RLt(Zero, OriginalScore(input_matrix, matches[n])))

\* C9: for a matrix with an empty dimension or with no entry above 0, match
\* returns empty Matches and Quality Score = Precision = Recall = F1 = 0 for
\* either value of allow_zero_scores, without calling the solver or raising.
C9_DegenerateMatrixGivesZeros ==
    (/\ pc = "done"
     /\ \/ row_count(input_matrix) = 0
        \/ col_count(input_matrix) = 0
        \/ ~SomeEntryPositive(input_matrix)) =>
        /\ match_out.exc = "None"
        /\ match_out.assign = <<>>
        /\ match_out.ret.Matches = <<>>
        /\ match_out.ret.Quality_Score = Zero
        /\ match_out.ret.Precision = Zero
        /\ match_out.ret.Recall = Zero
        /\ match_out.ret.F1 = Zero

\* C9 witness: a 2x2 matrix of zeros and negatives resolved with
\* allow_zero_scores = True.
C9_Witness ==
    /\ pc = "done" /\ allow_zero_scores
    /\ row_count(input_matrix) = 2 /\ col_count(input_matrix) = 2
    /\ ~SomeEntryPositive(input_matrix)
    /\ Zero \in Entries(input_matrix)
    /\ match_out.exc = "None"
    /\ match_out.ret.Matches = <<>>

-----------------------------------------------------------------------------
(* Defaults and the class constants of MaScorer *)

LS_WEIGHT == 1
DS_WEIGHT == 1
AS_WEIGHT == 1
ESS_WEIGHT == 1
MAX_DIST == 100
DIST_BUFFER == Frac(MAX_DIST, 6)
MAX_DATE_DIFF == 4

STATE_ACTORS == {"Fred", "Ethel"}
WILDCARD_ACTORS == {"Unspecified"}
ACTORS == STATE_ACTORS \cup WILDCARD_ACTORS
SUBTYPES == {"Conflict", "Force Posture"}

-----------------------------------------------------------------------------
(* MaScorer.score_one and the component scores *)

\* geopy's distance(...).km.  A (latitude, longitude) pair is modelled as a
\* position in km along one great circle, so the distance is the difference.
distance(p1, p2) == Abs(p1 - p2)

\* A Python value of the approximate-location flag: kind is "bool" or "str",
\* text its literal.
\* eval of a string that holds a boolean literal gives that boolean.
py_eval(text) == [kind |-> "bool", text |-> text]

\* The coercion by truthiness, int(bool(value)): a non-empty string gives 1.
int_of_flag_truthy(is_approximate) ==
    IF is_approximate.kind = "str"
    THEN (IF is_approximate.text = "" THEN 0 ELSE 1)
    ELSE (IF is_approximate.text = "True" THEN 1 ELSE 0)

\* A string is evaluated first; int() of the boolean gives 1 for True and 0
\* for False.
int_of_flag(is_approximate) ==
    LET v == IF is_approximate.kind = "str" THEN py_eval(is_approximate.text)
             ELSE is_approximate
    IN  IF v.text = "True" THEN 1 ELSE 0

location_score_raises(is_approximate, max_dist, dist_buffer) ==
    slope_score_raises(Zero, RSub(max_dist, RMul(R(int_of_flag(is_approximate)), dist_buffer)))

location_score(p1, p2, is_approximate, max_dist, dist_buffer) ==
    LET dist_km == R(distance(p1, p2))
        approx == R(int_of_flag(is_approximate))
        max_d == RSub(max_dist, RMul(approx, dist_buffer))
        d == RSub(dist_km, RMul(approx, dist_buffer))
    IN  slope_score(d, Zero, max_d)

actor_score(warn_actor, gsr_actor, legit_actors, wildcards) ==
    IF warn_actor \notin legit_actors THEN 0
    ELSE facet_score(warn_actor, gsr_actor, wildcards)

event_subtype_score(warn_subtype, gsr_subtype) ==
    IF warn_subtype \notin SUBTYPES THEN 0
    ELSE facet_score(warn_subtype, gsr_subtype, {})

\* A combination that averages the weighted components to a 0..1 scale.
combined_qs_normalised(ls, ds, as, ess, lw, dw, aw, ew) ==
    IF RMin(ls, ds) = Zero THEN Zero
    ELSE RDiv(RAdd(RAdd(RMul(lw, ls), RMul(dw, ds)), RAdd(RMul(aw, as), RMul(ew, ess))),
              R(4))

\* The combined Quality Score of score_one.
combined_qs(ls, ds, as, ess, lw, dw, aw, ew) ==
    IF RMin(ls, ds) = Zero THEN Zero
    ELSE RAdd(RAdd(RAdd(RMul(lw, ls), RMul(dw, ds)), RMul(aw, as)), RMul(ew, ess))

\* error_list: one entry per negative weight, in the order of the checks.
weight_errors(ls_weight, ds_weight, as_weight, ess_weight) ==
    (IF RLt(ls_weight, Zero) THEN <<"LS Weight must be positive">> ELSE <<>>)
    \o (IF RLt(ds_weight, Zero) THEN <<"DS Weight must be positive">> ELSE <<>>)
    \o (IF RLt(as_weight, Zero) THEN <<"AS Weight must be positive">> ELSE <<>>)
    \o (IF RLt(ess_weight, Zero) THEN <<"ESS Weight must be positive">> ELSE <<>>)

\* The outcome of score_one.  used holds the values of ls_weight, ds_weight,
\* as_weight, ess_weight after the reweighting step.
score_one(w, e, max_dist, dist_buffer, max_date_diff, legit_actors, wildcards, ls_weight, ds_weight, as_weight, ess_weight) ==
    LET error_list == weight_errors(ls_weight, ds_weight, as_weight, ess_weight)
        weight_sum == RAdd(RAdd(RAdd(ls_weight, ds_weight), as_weight), ess_weight)
        reweight == weight_sum # R(4)
    IN  IF reweight /\ weight_sum = Zero
        THEN [exc |-> "ZeroDivisionError"]
        ELSE
        LET lw == IF reweight THEN RDiv(RMul(R(4), ls_weight), weight_sum) ELSE ls_weight
            dw == IF reweight THEN RDiv(RMul(R(4), ds_weight), weight_sum) ELSE ds_weight
            aw == IF reweight THEN RDiv(RMul(R(4), as_weight), weight_sum) ELSE as_weight
            ew == IF reweight THEN RDiv(RMul(R(4), ess_weight), weight_sum) ELSE ess_weight
            notices == IF reweight
                       THEN [Notices |-> <<"Reweighting so that sum of weights is 4.0">>]
                       ELSE <<>>
            ids == [Warning_ID |-> w.Warning_ID, Event_ID |-> e.Event_ID]
        IN  IF error_list # <<>>
            THEN [exc |-> "None", used |-> <<lw, dw, aw, ew>>,
                  ret |-> (ids @@ [Errors |-> error_list]) @@ notices]
            ELSE IF \/ location_score_raises(e.Approximate_Location, max_dist, dist_buffer)
                    \/ slope_score_raises(Zero, max_date_diff)
            THEN [exc |-> "ValueError"]
            ELSE
            LET ls == location_score(w.Position, e.Position, e.Approximate_Location,
                                     max_dist, dist_buffer)
                ds == date_score(date_diff(w.Event_Date, e.Event_Date), max_date_diff)
                ess == R(event_subtype_score(w.Event_Subtype, e.Event_Subtype))
                as == R(actor_score(w.Actor, e.Actor, legit_actors, wildcards))
                qs == combined_qs(ls, ds, as, ess, lw, dw, aw, ew)
            IN  [exc |-> "None", used |-> <<lw, dw, aw, ew>>,
                 ret |-> (ids @@ [Approximate_Location |-> e.Approximate_Location,
                                   Distance |-> R(distance(w.Position, e.Position)),
                                   Date_Difference |-> Abs(date_diff(w.Event_Date, e.Event_Date)),
                                   LS |-> ls, DS |-> ds, ESS |-> ess, AS |-> as, QS |-> qs])
                         @@ notices]

-----------------------------------------------------------------------------
(* Inputs of score_one *)

WeightValues == {R(-1), R(0), R(1), R(2)}

Weights == [ls : WeightValues, ds : WeightValues, as : WeightValues, ess : WeightValues]

Flags == {[kind |-> "bool", text |-> "False"], [kind |-> "str", text |-> "True"]}

Warnings ==
    [Warning_ID : {WarnId(1)}, Position : {0, 50, 100}, Event_Date : {10},
     Actor : {"Fred", "Lucy"}, Event_Subtype : {"Conflict", "Riot"}]

Events ==
    [Event_ID : {EventId(1)}, Position : {0}, Event_Date : {10, 12, 14},
     Actor : {{"Fred"}, {"Ethel", "Unspecified"}}, Event_Subtype : {{"Conflict"}},
     Approximate_Location : Flags]

InitScoreOne ==
    /\ pc = "call"
    /\ loc_args = Unused /\ loc_out = Unused
    /\ warn_ \in Warnings
    /\ event_ \in Events
    /\ weights \in Weights
    /\ one_out = Unused
    /\ match_out = Unused
    /\ input_matrix = Unused /\ allow_zero_scores = Unused
    /\ scorer = Unused /\ warn_data = Unused /\ gsr_data = Unused /\ score_out = Unused

\* One call of MaScorer.score_one with the given weights and the other
\* parameters at their defaults.
ScoreOne ==
    /\ pc = "call"
    /\ one_out' = score_one(warn_, event_, R(MAX_DIST), DIST_BUFFER, R(MAX_DATE_DIFF),
                            ACTORS, WILDCARD_ACTORS,
                            weights.ls, weights.ds, weights.as, weights.ess)
    /\ pc' = "scored"
    /\ UNCHANGED <<input_matrix, allow_zero_scores, match_out, warn_, event_, weights,
                   scorer, warn_data, gsr_data, score_out,
                   loc_args, loc_out>>

HasScore(o) == o.exc = "None" /\ "QS" \in DOMAIN o.ret

\* The 1x1 score matrix of the scored pair, resolved by MaScorer.match with
\* allow_zero_scores = False.
ResolvePair ==
    /\ pc = "scored"
    /\ HasScore(one_out)
    /\ input_matrix' = [index |-> <<one_out.ret.Warning_ID>>,
                        columns |-> <<one_out.ret.Event_ID>>,
                        values |-> <<<<one_out.ret.QS>>>>]
    /\ allow_zero_scores' = FALSE
    /\ \E o \in MaScorer_match(input_matrix', FALSE) : match_out' = o
    /\ pc' = "resolved"
    /\ UNCHANGED <<warn_, event_, weights, one_out, scorer, warn_data, gsr_data, score_out,
                   loc_args, loc_out>>

NextScoreOne == ScoreOne \/ ResolvePair

SpecScoreOne == InitScoreOne /\ [][NextScoreOne]_vars

-----------------------------------------------------------------------------
(* Properties of score_one *)

WeightSeq == <<weights.ls, weights.ds, weights.as, weights.ess>>
WeightSum == RSum(WeightSeq)
SomeWeightNegative == \E i \in 1..4 : RLt(WeightSeq[i], Zero)

ComponentFields == {"LS", "DS", "AS", "ESS"}

\* The pair of C4: distance 0 km, same date, a legitimate actor equal to the
\* GSR actor, a legitimate subtype equal to the GSR subtype, default weights.
ExactPair ==
    /\ weights = [ls |-> R(LS_WEIGHT), ds |-> R(DS_WEIGHT),
                  as |-> R(AS_WEIGHT), ess |-> R(ESS_WEIGHT)]
    /\ distance(warn_.Position, event_.Position) = 0
    /\ warn_.Event_Date = event_.Event_Date
    /\ warn_.Actor \in ACTORS /\ event_.Actor = {warn_.Actor}
    /\ warn_.Event_Subtype \in SUBTYPES /\ event_.Event_Subtype = {warn_.Event_Subtype}

PairResolvedToOnes ==
    /\ match_out.exc = "None"
    /\ match_out.ret.Matches = <<<<warn_.Warning_ID, event_.Event_ID>>>>
    /\ match_out.ret.Precision = One
    /\ match_out.ret.Recall = One
    /\ match_out.ret.F1 = One

\* C4 (as stated): for the exact pair under the defaults the combined Quality
\* Score is 1.0, and resolving the 1x1 matrix gives Precision = Recall = F1 = 1.0.
C4_ExactPairScoresOne ==
    (pc \in {"scored", "resolved"} /\ ExactPair) =>
        /\ HasScore(one_out)
        /\ one_out.ret.QS = One
        /\ (pc = "resolved" => PairResolvedToOnes)

\* C4 (amended): for the exact pair under the defaults every component score
\* is 1.0 and the combined Quality Score is their weighted sum 4.0; resolving
\* the 1x1 matrix gives Precision = Recall = F1 = 1.0 and Quality Score 4.0.
C4_ExactPairScoresFour ==
    (pc \in {"scored", "resolved"} /\ ExactPair) =>
        /\ HasScore(one_out)
        /\ \A f \in ComponentFields : one_out.ret[f] = One
        /\ one_out.ret.QS = R(4)
        /\ "Notices" \notin DOMAIN one_out.ret
        /\ (pc = "resolved" => PairResolvedToOnes /\ match_out.ret.Quality_Score = R(4))

\* C4 witness: the exact pair has been scored and its 1x1 matrix resolved.
C4_Witness ==
    /\ pc = "resolved" /\ ExactPair
    /\ one_out.ret.QS = R(4)
    /\ PairResolvedToOnes

NegativeWeightErrors ==
    weight_errors(weights.ls, weights.ds, weights.as, weights.ess)

\* C5 (as stated): with at least one negative weight (sums of 0 included)
\* score_one does not raise; its result carries an Errors entry naming each
\* negative weight and carries no Quality Score and no component score.
C5_NegativeWeightGivesErrors ==
    (pc = "scored" /\ SomeWeightNegative) =>
        /\ one_out.exc = "None"
        /\ "Errors" \in DOMAIN one_out.ret
        /\ one_out.ret.Errors = NegativeWeightErrors
        /\ Len(one_out.ret.Errors) = Cardinality({i \in 1..4 : RLt(WeightSeq[i], Zero)})
        /\ "QS" \notin DOMAIN one_out.ret
        /\ ComponentFields \cap DOMAIN one_out.ret = {}

\* C6 (as stated): four non-negative weights whose sum is not 4.0 (all four 0
\* included) are rescaled proportionally to sum to 4.0, ratios preserved
\* ((2,1,1,1) becomes (1.6,0.8,0.8,0.8)), with a Notices entry; weights that
\* sum to 4.0 are used unchanged, with no notice.
C6_WeightsRescaledToFour ==
    (pc = "scored" /\ ~SomeWeightNegative) =>
        /\ one_out.exc = "None"
        /\ IF WeightSum # R(4)
           THEN /\ RSum(one_out.used) = R(4)
                /\ \A i, j \in 1..4 :
                      RMul(one_out.used[i], WeightSeq[j]) = RMul(one_out.used[j], WeightSeq[i])
                /\ "Notices" \in DOMAIN one_out.ret
                /\ (WeightSeq = <<R(2), R(1), R(1), R(1)>> =>
                       one_out.used = <<Frac(8, 5), Frac(4, 5), Frac(4, 5), Frac(4, 5)>>)
           ELSE /\ one_out.used = WeightSeq
                /\ "Notices" \notin DOMAIN one_out.ret

\* C7 (as stated): with non-negative weights, whenever the Location Score or
\* the Date Score of the pair is 0 the Quality Score is 0 whatever the other
\* scores and the weights; otherwise it is the sum of the four component
\* scores weighted by the effective weights.
C7_ZeroFloorElseWeightedSum ==
    (pc = "scored" /\ ~SomeWeightNegative) =>
        LET ls == location_score(warn_.Position, event_.Position,
                                 event_.Approximate_Location, R(MAX_DIST), DIST_BUFFER)
            ds == date_score(date_diff(warn_.Event_Date, event_.Event_Date), R(MAX_DATE_DIFF))
        IN  /\ HasScore(one_out)
            /\ one_out.ret.LS = ls /\ one_out.ret.DS = ds
            /\ IF ls = Zero \/ ds = Zero
               THEN one_out.ret.QS = Zero
               ELSE one_out.ret.QS =
                       RSum([i \in 1..4 |->
                               RMul(one_out.used[i],
                                    <<one_out.ret.LS, one_out.ret.DS,
                                      one_out.ret.AS, one_out.ret.ESS>>[i])])

-----------------------------------------------------------------------------
(* CaseCountScorer *)

ACCURACY_DENOMINATOR == 4

\* Python's None, for a scope level the scorer leaves open.
None == "None"

LOCATIONS == {"Egypt", "Jordan", "Saudi Arabia", "Tahrir", "Amman", "Irbid", "Madaba"}

LOCATION_DICT ==
    [l \in LOCATIONS |->
        CASE l = "Egypt" -> [Country |-> "Egypt"]
          [] l = "Saudi Arabia" -> [Country |-> "Saudi Arabia"]
          [] l = "Jordan" -> [Country |-> "Jordan"]
          [] l = "Tahrir" -> [Country |-> "Egypt", City |-> "Tahrir"]
          [] l = "Amman" -> [Country |-> "Jordan", State |-> "Amman"]
          [] l = "Irbid" -> [Country |-> "Jordan", State |-> "Irbid"]
          [] l = "Madaba" -> [Country |-> "Jordan", State |-> "Madaba"]]

fill_out_location(location, event_type) ==
    [Event_Type |-> event_type]
        @@ (IF location \in LOCATIONS THEN LOCATION_DICT[location] ELSE <<>>)

\* CaseCountScorer(event_type, location): the configured scope.
CaseCountScorer(event_type, location) ==
    LET details == fill_out_location(location, event_type)
    IN  [event_type |-> details.Event_Type,
         country |-> IF "Country" \in DOMAIN details THEN details.Country ELSE None,
         state |-> IF "State" \in DOMAIN details THEN details.State ELSE None,
         city |-> IF "City" \in DOMAIN details THEN details.City ELSE None]

\* quality_score returns None (here NaN, which is what pandas stores for it)
\* when a count is negative or the accuracy denominator is not positive.
quality_score(predicted, actual, accuracy_denominator) ==
    IF RLt(predicted, Zero) \/ RLt(actual, Zero) THEN NaN
    ELSE IF RLe(accuracy_denominator, Zero) THEN NaN
    ELSE LET numerator == IF RLt(predicted, actual) THEN RSub(actual, predicted)
                          ELSE RSub(predicted, actual)
             denominator == RMax(RMax(predicted, actual), accuracy_denominator)
         IN  RSub(One, RDiv(numerator, denominator))

\* The row filter of make_score_df: category and location at every level the
\* scorer specifies.
in_scope(self, rec) ==
    /\ rec.Event_Type = self.event_type
    /\ rec.Country = self.country
    /\ (self.state # None => rec.State = self.state)
    /\ (self.city # None => rec.City = self.city)

\* A missing identifier in the merged frame.
Null == <<"null", 0>>

SetMin(S) == CHOOSE x \in S : \A y \in S : x <= y

RECURSIVE FlatMap(_, _)
\* The concatenation of f[s[1]], f[s[2]], ...
FlatMap(s, f) == IF s = <<>> THEN <<>> ELSE f[Head(s)] \o FlatMap(Tail(s), f)

\* A row of the merged frame; a side that is absent has a Null identifier and
\* a missing (NaN) count.
merged_row(w, g, d) ==
    [Warning_ID |-> IF w = <<>> THEN Null ELSE w[1].Warning_ID,
     Event_ID |-> IF g = <<>> THEN Null ELSE g[1].Event_ID,
     Event_Date |-> d,
     Warning_Case_Count |-> IF w = <<>> THEN NaN ELSE R(w[1].Case_Count),
     GSR_Case_Count |-> IF g = <<>> THEN NaN ELSE R(g[1].Case_Count)]

\* The rows of the outer join for one date.
rows_of_date(warn_df, gsr_df, d) ==
    LET W == SelectSeq(warn_df, LAMBDA w : w.Event_Date = d)
        G == SelectSeq(gsr_df, LAMBDA g : g.Event_Date = d)
    IN  IF G = <<>> THEN [i \in 1..Len(W) |-> merged_row(<<W[i]>>, <<>>, d)]
        ELSE IF W = <<>> THEN [j \in 1..Len(G) |-> merged_row(<<>>, <<G[j]>>, d)]
        ELSE FlatMap(W, [w \in {W[i] : i \in 1..Len(W)} |->
                            [j \in 1..Len(G) |-> merged_row(<<w>>, <<G[j]>>, d)]])

RECURSIVE outer_merge(_, _, _)
\* pd.merge(how="outer") on Event_Date: the rows in the order of the dates.
outer_merge(warn_df, gsr_df, dates) ==
    IF dates = {} THEN <<>>
    ELSE LET d == SetMin(dates)
         IN  rows_of_date(warn_df, gsr_df, d) \o outer_merge(warn_df, gsr_df, dates \ {d})

\* pd.DataFrame([]) has no columns: selecting one raises KeyError.
make_score_df_raises(wd, gd) == wd = <<>> \/ gd = <<>>

make_score_df(self, wd, gd) ==
    LET warn_df == SelectSeq(wd, LAMBDA r : in_scope(self, r))
        gsr_df == SelectSeq(gd, LAMBDA r : in_scope(self, r))
        dates == {warn_df[i].Event_Date : i \in 1..Len(warn_df)}
                 \cup {gsr_df[j].Event_Date : j \in 1..Len(gsr_df)}
    IN  outer_merge(warn_df, gsr_df, dates)

\* CaseCountScorer.match
CaseCountScorer_match(self, wd, gd) ==
    LET score_df == make_score_df(self, wd, gd)
        unmatched_warn_df == SelectSeq(score_df, LAMBDA r : r.Event_ID = Null)
        unmatched_gsr_df == SelectSeq(score_df, LAMBDA r : r.Warning_ID = Null)
        matched_df == SelectSeq(score_df, LAMBDA r : r.Event_ID # Null /\ r.Warning_ID # Null)
    IN  [Unmatched_Warnings |-> [i \in 1..Len(unmatched_warn_df) |-> unmatched_warn_df[i].Warning_ID],
         Unmatched_GSR |-> [i \in 1..Len(unmatched_gsr_df) |-> unmatched_gsr_df[i].Event_ID],
         Matches |-> [i \in 1..Len(matched_df) |->
                        <<matched_df[i].Warning_ID, matched_df[i].Event_ID>>]]

\* Series.mean: missing values are skipped; the mean of nothing is NaN.
nanmean(s) == Mean(SelectSeq(s, LAMBDA x : ~IsNaN(x)))

\* n_match = len(scorable_df)
n_match_of(scorable_df, qs_ser) == Len(scorable_df)

\* The outcome of CaseCountScorer.score.
CaseCountScorer_score(self, wd, gd) ==
    IF make_score_df_raises(wd, gd) THEN [exc |-> "KeyError"]
    ELSE
    LET score_df == make_score_df(self, wd, gd)
        matches == CaseCountScorer_match(self, wd, gd)
        scorable_df == SelectSeq(score_df, LAMBDA r : r.Warning_ID # Null /\ r.Event_ID # Null)
        qs_ser == [i \in 1..Len(scorable_df) |->
                    quality_score(scorable_df[i].Warning_Case_Count,
                                  scorable_df[i].GSR_Case_Count, R(ACCURACY_DENOMINATOR))]
        mean_qs == nanmean(qs_ser)
        n_warn == Len(SelectSeq(score_df, LAMBDA r : r.Warning_ID # Null))
        n_gsr == Len(SelectSeq(score_df, LAMBDA r : r.Event_ID # Null))
        n_match == n_match_of(scorable_df, qs_ser)
    IN  IF n_warn = 0 \/ n_gsr = 0 THEN [exc |-> "ZeroDivisionError"]
        ELSE [exc |-> "None",
              ret |-> matches @@
                      [Results |-> [Quality_Score |-> mean_qs,
                                    Precision |-> Frac(n_match, n_warn),
                                    Recall |-> Frac(n_match, n_gsr)],
                       Details |-> [QS_Values |-> qs_ser]]]

-----------------------------------------------------------------------------
(* Inputs of the count scorer *)

\* Largest number of warning records and of GSR records in a collection.
MaxWarn == 2
MaxGsr == 2

Dates == {1, 2}
Countries == {"Egypt", "Jordan"}
WarnCounts == {-1, 1}
GsrCounts == {-1, 3}

WarnRecord(i, country, d, n) ==
    [Warning_ID |-> WarnId(i), Event_Type |-> "Disease", Country |-> country,
     State |-> "Cairo", City |-> "Cairo", Event_Date |-> d, Case_Count |-> n]

GsrRecord(j, country, d, n) ==
    [Event_ID |-> EventId(j), Event_Type |-> "Disease", Country |-> country,
     State |-> "Cairo", City |-> "Cairo", Event_Date |-> d, Case_Count |-> n]

Payloads(counts) == Countries \X Dates \X counts

WarnCollections ==
    UNION {{[i \in 1..n |-> WarnRecord(i, f[i][1], f[i][2], f[i][3])] :
               f \in [1..n -> Payloads(WarnCounts)]} : n \in 0..MaxWarn}

GsrCollections ==
    UNION {{[j \in 1..n |-> GsrRecord(j, f[j][1], f[j][2], f[j][3])] :
               f \in [1..n -> Payloads(GsrCounts)]} : n \in 0..MaxGsr}

InitCaseCount ==
    /\ pc = "call"
    /\ loc_args = Unused /\ loc_out = Unused
    /\ scorer = CaseCountScorer("Disease", "Egypt")
    /\ warn_data \in WarnCollections
    /\ gsr_data \in GsrCollections
    /\ score_out = Unused
    /\ input_matrix = Unused /\ allow_zero_scores = Unused /\ match_out = Unused
    /\ warn_ = Unused /\ event_ = Unused /\ weights = Unused /\ one_out = Unused

\* One call of scorer.score(warn_data, gsr_data).
Score ==
    /\ pc = "call"
    /\ score_out' = CaseCountScorer_score(scorer, warn_data, gsr_data)
    /\ pc' = "done"
    /\ UNCHANGED <<input_matrix, allow_zero_scores, match_out, warn_, event_, weights,
                   one_out, scorer, warn_data, gsr_data,
                   loc_args, loc_out>>

\* The outcome of scorer.match(warn_data, gsr_data): make_score_df raises on a
\* collection without records, otherwise match returns its three lists.
CaseCountScorer_match_call(self, wd, gd) ==
    IF make_score_df_raises(wd, gd) THEN [exc |-> "KeyError"]
    ELSE [exc |-> "None", ret |-> CaseCountScorer_match(self, wd, gd)]

\* One call of scorer.match(warn_data, gsr_data).
CountMatch ==
    /\ pc = "call"
    /\ match_out' = CaseCountScorer_match_call(scorer, warn_data, gsr_data)
    /\ pc' = "matched"
    /\ UNCHANGED <<input_matrix, allow_zero_scores, warn_, event_, weights,
                   one_out, scorer, warn_data, gsr_data, score_out,
                   loc_args, loc_out>>

NextCaseCount == Score \/ CountMatch

SpecCaseCount == InitCaseCount /\ [][NextCaseCount]_vars

-----------------------------------------------------------------------------
(* Properties of the count scorer *)

WarnInScope == SelectSeq(warn_data, LAMBDA r : in_scope(scorer, r))
GsrInScope == SelectSeq(gsr_data, LAMBDA r : in_scope(scorer, r))

\* The (warning, event) pairs joined on the date, in scope on both sides.
JoinedPairs ==
    {<<i, j>> \in (1..Len(WarnInScope)) \X (1..Len(GsrInScope)) :
        WarnInScope[i].Event_Date = GsrInScope[j].Event_Date}

PairValid(p) == WarnInScope[p[1]].Case_Count >= 0 /\ GsrInScope[p[2]].Case_Count >= 0

ValidPairs == {p \in JoinedPairs : PairValid(p)}

\* The number of rows of the merged frame that carry a warning / an event.
WarnRows ==
    Cardinality(JoinedPairs)
    + Cardinality({i \in 1..Len(WarnInScope) : \A p \in JoinedPairs : p[1] # i})
GsrRows ==
    Cardinality(JoinedPairs)
    + Cardinality({j \in 1..Len(GsrInScope) : \A p \in JoinedPairs : p[2] # j})

\* C8 (as stated): when no warning is in scope or no event is in scope (empty
\* collections included) score does not raise and returns empty Matches and
\* zero Precision, Recall and Quality Score.
C8_NothingInScopeGivesZeros ==
    (pc = "done" /\ (WarnInScope = <<>> \/ GsrInScope = <<>>)) =>
        /\ score_out.exc = "None"
        /\ score_out.ret.Matches = <<>>
        /\ score_out.ret.Results.Precision = Zero
        /\ score_out.ret.Results.Recall = Zero
        /\ score_out.ret.Results.Quality_Score = Zero

\* C10 (as stated): a matched pair with a negative count is skipped: it is
\* not counted in the numerator of Precision or Recall and does not enter
\* the mean Quality Score, and score completes for the remaining pairs.
C10_InvalidPairSkipped ==
    (pc = "done" /\ JoinedPairs # ValidPairs) =>
        /\ score_out.exc = "None"
        /\ score_out.ret.Results.Precision = Frac(Cardinality(ValidPairs), WarnRows)
        /\ score_out.ret.Results.Recall = Frac(Cardinality(ValidPairs), GsrRows)
        /\ score_out.ret.Results.Quality_Score =
              nanmean(score_out.ret.Details.QS_Values)
        /\ Len(SelectSeq(score_out.ret.Details.QS_Values, LAMBDA x : ~IsNaN(x)))
              = Cardinality(ValidPairs)

-----------------------------------------------------------------------------
(* Properties of CaseCountScorer.match *)

SeqToSet(q) == {q[i] : i \in 1..Len(q)}

\* How often x occurs in the sequence q.
Occurrences(q, x) == Cardinality({i \in 1..Len(q) : q[i] = x})

\* At most one in-scope warning and at most one in-scope event per date.
OnePerDate ==
    /\ \A i, j \in 1..Len(WarnInScope) :
          WarnInScope[i].Event_Date = WarnInScope[j].Event_Date => i = j
    /\ \A i, j \in 1..Len(GsrInScope) :
          GsrInScope[i].Event_Date = GsrInScope[j].Event_Date => i = j

ExpectedMatches ==
    {<<WarnInScope[p[1]].Warning_ID, GsrInScope[p[2]].Event_ID>> : p \in JoinedPairs}

ExpectedUnmatchedWarnings ==
    {WarnInScope[i].Warning_ID : i \in {k \in 1..Len(WarnInScope) :
                                           \A p \in JoinedPairs : p[1] # k}}

ExpectedUnmatchedGsr ==
    {GsrInScope[j].Event_ID : j \in {k \in 1..Len(GsrInScope) :
                                        \A p \in JoinedPairs : p[2] # k}}

\* The lists of a match result meet the contract of C11 for the collections
\* of the state.
MatchListsAsClaimed(ret) ==
    LET matched_w == [n \in 1..Len(ret.Matches) |-> ret.Matches[n][1]]
        matched_e == [n \in 1..Len(ret.Matches) |-> ret.Matches[n][2]]
    IN  /\ SeqToSet(ret.Matches) = ExpectedMatches
        /\ SeqToSet(ret.Unmatched_Warnings) = ExpectedUnmatchedWarnings
        /\ SeqToSet(ret.Unmatched_GSR) = ExpectedUnmatchedGsr
        /\ \A i \in 1..Len(WarnInScope) :
              Occurrences(matched_w, WarnInScope[i].Warning_ID)
              + Occurrences(ret.Unmatched_Warnings, WarnInScope[i].Warning_ID) = 1
        /\ \A j \in 1..Len(GsrInScope) :
              Occurrences(matched_e, GsrInScope[j].Event_ID)
              + Occurrences(ret.Unmatched_GSR, GsrInScope[j].Event_ID) = 1
        /\ \A i \in 1..Len(warn_data) :
              ~in_scope(scorer, warn_data[i]) =>
                  warn_data[i].Warning_ID \notin
                      (SeqToSet(matched_w) \cup SeqToSet(ret.Unmatched_Warnings))
        /\ \A j \in 1..Len(gsr_data) :
              ~in_scope(scorer, gsr_data[j]) =>
                  gsr_data[j].Event_ID \notin
                      (SeqToSet(matched_e) \cup SeqToSet(ret.Unmatched_GSR))

\* C11 (as stated): with at most one in-scope warning and one in-scope event
\* per date, match reports a warning and an event as a pair iff both are in
\* scope and share a date, lists every other in-scope warning and event as
\* unmatched, has each in-scope identifier exactly once, and has no
\* out-of-scope record anywhere.
C11_MatchByDatePartitions ==
    (pc = "matched" /\ OnePerDate) =>
        /\ match_out.exc = "None"
        /\ MatchListsAsClaimed(match_out.ret)

-----------------------------------------------------------------------------
(* MaScorer.score *)

\* MaScorer(country): the configured scope.
MaScorer(country) == [event_type |-> "Military Action", country |-> country]

\* MaScorer.score builds an empty out_dict and returns it.
MaScorer_score(self, wd, gd) == [exc |-> "None", ret |-> <<>>]

MaWarnRecord(i, country, pos, d) ==
    [Warning_ID |-> WarnId(i), Event_Type |-> "Military Action", Country |-> country,
     Position |-> pos, Event_Date |-> d, Actor |-> "Fred", Event_Subtype |-> "Conflict"]

MaGsrRecord(j, country, pos, d) ==
    [Event_ID |-> EventId(j), Event_Type |-> "Military Action", Country |-> country,
     Position |-> pos, Event_Date |-> d, Actor |-> {"Fred"}, Event_Subtype |-> {"Conflict"},
     Approximate_Location |-> [kind |-> "bool", text |-> "False"]]

MaPayloads == Countries \X {0, 50} \X {10, 12}

MaWarnCollections ==
    UNION {{[i \in 1..n |-> MaWarnRecord(i, f[i][1], f[i][2], f[i][3])] :
               f \in [1..n -> MaPayloads]} : n \in 0..MaxWarn}

MaGsrCollections ==
    UNION {{[j \in 1..n |-> MaGsrRecord(j, f[j][1], f[j][2], f[j][3])] :
               f \in [1..n -> MaPayloads]} : n \in 0..MaxGsr}

InitMaScore ==
    /\ pc = "call"
    /\ loc_args = Unused /\ loc_out = Unused
    /\ scorer = MaScorer("Egypt")
    /\ warn_data \in MaWarnCollections
    /\ gsr_data \in MaGsrCollections
    /\ score_out = Unused
    /\ input_matrix = Unused /\ allow_zero_scores = Unused /\ match_out = Unused
    /\ warn_ = Unused /\ event_ = Unused /\ weights = Unused /\ one_out = Unused

\* One call of scorer.score(warn_data, gsr_data) on a MaScorer.
MaScore ==
    /\ pc = "call"
    /\ score_out' = MaScorer_score(scorer, warn_data, gsr_data)
    /\ pc' = "done"
    /\ UNCHANGED <<input_matrix, allow_zero_scores, match_out, warn_, event_, weights,
                   one_out, scorer, warn_data, gsr_data,
                   loc_args, loc_out>>

NextMaScore == MaScore

SpecMaScore == InitMaScore /\ [][NextMaScore]_vars

-----------------------------------------------------------------------------
(* Properties of MaScorer.score *)

MaInScope(rec) == rec.Event_Type = scorer.event_type /\ rec.Country = scorer.country

MaWarnInScope == SelectSeq(warn_data, MaInScope)
MaGsrInScope == SelectSeq(gsr_data, MaInScope)

\* score_one of an in-scope pair under the defaults.
PairScore(w, e) ==
    score_one(w, e, R(MAX_DIST), DIST_BUFFER, R(MAX_DATE_DIFF), ACTORS, WILDCARD_ACTORS,
              R(LS_WEIGHT), R(DS_WEIGHT), R(AS_WEIGHT), R(ESS_WEIGHT))

\* The (warnings x events) matrix of per-pair Quality Scores.
QualityMatrix ==
    [index |-> [i \in 1..Len(MaWarnInScope) |-> MaWarnInScope[i].Warning_ID],
     columns |-> [j \in 1..Len(MaGsrInScope) |-> MaGsrInScope[j].Event_ID],
     values |-> [i \in 1..Len(MaWarnInScope) |->
                    [j \in 1..Len(MaGsrInScope) |->
                        PairScore(MaWarnInScope[i], MaGsrInScope[j]).ret.QS]]]

PairScores ==
    {PairScore(MaWarnInScope[i], MaGsrInScope[j]).ret :
        i \in 1..Len(MaWarnInScope), j \in 1..Len(MaGsrInScope)}

\* C12 (as stated): MaScorer.score returns the Assignment Solver's result for
\* the matrix of per-pair Quality Scores of the in-scope pairs, resolved with
\* allow_zero_scores = False: a mapping with Matches, Unmatched Warnings,
\* Unmatched GSR, Results (Quality Score, Precision, Recall, F1) and Details
\* with the per-pair component scores.
C12_ScoreReturnsSolverResult ==
    (pc = "done") =>
        /\ score_out.exc = "None"
        /\ {"Matches", "Unmatched_Warnings", "Unmatched_GSR", "Results", "Details"}
              \subseteq DOMAIN score_out.ret
        /\ {"Quality_Score", "Precision", "Recall", "F1"} \subseteq DOMAIN score_out.ret.Results
        /\ \E o \in MaScorer_match(QualityMatrix, FALSE) :
              /\ o.exc = "None"
              /\ score_out.ret.Matches = o.ret.Matches
              /\ score_out.ret.Results.Quality_Score = o.ret.Quality_Score
              /\ score_out.ret.Results.Precision = o.ret.Precision
              /\ score_out.ret.Results.Recall = o.ret.Recall
              /\ score_out.ret.Results.F1 = o.ret.F1
              /\ \A i \in 1..Len(MaWarnInScope) :
                    (MaWarnInScope[i].Warning_ID \in SeqToSet(score_out.ret.Unmatched_Warnings))
                    <=> (\A n \in 1..Len(o.ret.Matches) :
                            o.ret.Matches[n][1] # MaWarnInScope[i].Warning_ID)
              /\ \A j \in 1..Len(MaGsrInScope) :
                    (MaGsrInScope[j].Event_ID \in SeqToSet(score_out.ret.Unmatched_GSR))
                    <=> (\A n \in 1..Len(o.ret.Matches) :
                            o.ret.Matches[n][2] # MaGsrInScope[j].Event_ID)
        /\ SeqToSet(score_out.ret.Details) = PairScores

-----------------------------------------------------------------------------
(* MaScorer.location_score on its own *)

\* The outcome of location_score(p1, p2, is_approximate, max_dist, dist_buffer).
location_score_call(a) ==
    IF location_score_raises(a.is_approximate, a.max_dist, a.dist_buffer)
    THEN [exc |-> "ValueError"]
    ELSE [exc |-> "None",
          val |-> location_score(a.p1, a.p2, a.is_approximate, a.max_dist, a.dist_buffer)]

AllFlags == {[kind |-> k, text |-> t] : k \in {"bool", "str"}, t \in {"True", "False"}}

Distances == {0, 5, 10, 20, 50, 60, 100, 150}
MaxDists == {R(60), R(MAX_DIST)}
Buffers == {Zero, R(10), DIST_BUFFER, R(60)}

InitLocation ==
    /\ pc = "call"
    /\ loc_args \in [p1 : Distances, p2 : {0}, is_approximate : AllFlags,
                     max_dist : MaxDists, dist_buffer : Buffers]
    /\ loc_out = Unused
    /\ input_matrix = Unused /\ allow_zero_scores = Unused /\ match_out = Unused
    /\ warn_ = Unused /\ event_ = Unused /\ weights = Unused /\ one_out = Unused
    /\ scorer = Unused /\ warn_data = Unused /\ gsr_data = Unused /\ score_out = Unused

\* One call of MaScorer.location_score.
LocationScore ==
    /\ pc = "call"
    /\ loc_out' = location_score_call(loc_args)
    /\ pc' = "located"
    /\ UNCHANGED <<input_matrix, allow_zero_scores, match_out, warn_, event_, weights,
                   one_out, scorer, warn_data, gsr_data, score_out, loc_args>>

NextLocation == LocationScore

SpecLocation == InitLocation /\ [][NextLocation]_vars

-----------------------------------------------------------------------------
(* Properties of location_score *)

ArgDist == R(distance(loc_args.p1, loc_args.p2))
ArgApproximate == loc_args.is_approximate.text = "True"
BufferInRange == RLe(Zero, loc_args.dist_buffer) /\ RLt(loc_args.dist_buffer, loc_args.max_dist)

\* The score of the same distance for an event that is not approximate.
ExactScore == slope_score(ArgDist, Zero, loc_args.max_dist)

\* C13: for d >= 0, M > 0 and 0 <= b < M the score of an approximate event is
\* slope_score(d - b, 0, M - b); it lies in [0,1], is never below the score of
\* the same distance for a non-approximate event, is 1.0 for d <= b and 0.0
\* for d >= M; the flag given as the string "True"/"False" scores as the
\* boolean of the same name.
C13_ApproximateLocationLenient ==
    (pc = "located" /\ BufferInRange) =>
        /\ loc_out.exc = "None"
        /\ IF ArgApproximate
           THEN /\ loc_out.val = slope_score(RSub(ArgDist, loc_args.dist_buffer), Zero,
                                             RSub(loc_args.max_dist, loc_args.dist_buffer))
                /\ RLe(Zero, loc_out.val) /\ RLe(loc_out.val, One)
                /\ RLe(ExactScore, loc_out.val)
                /\ (RLe(ArgDist, loc_args.dist_buffer) => loc_out.val = One)
                /\ (RLe(loc_args.max_dist, ArgDist) => loc_out.val = Zero)
           ELSE loc_out.val = ExactScore
        /\ (loc_args.is_approximate.kind = "str" =>
               loc_out = location_score_call(
                           [loc_args EXCEPT !.is_approximate =
                               [kind |-> "bool", text |-> loc_args.is_approximate.text]]))

\* C13 witness: an event flagged approximate by the string "True", at a
\* distance between the buffer and the maximum, scored above the exact score.
C13_Witness ==
    /\ pc = "located" /\ BufferInRange
    /\ loc_args.is_approximate = [kind |-> "str", text |-> "True"]
    /\ RLt(loc_args.dist_buffer, ArgDist) /\ RLt(ArgDist, loc_args.max_dist)
    /\ loc_out.exc = "None"
    /\ RLt(ExactScore, loc_out.val) /\ RLt(loc_out.val, One)

=============================================================================
